---- MODULE Spec2Model ----
(***************************************************************************)
(* A model of parallel_wavenet_vocoder/train_student.py: the length-aware  *)
(* batch sampler, the batch assembler (collate_fn), the masked loss of a   *)
(* training step, the checkpoint manager and the training loop.            *)
(*                                                                         *)
(* Python's None is the empty sequence and a present value v is <<v>>.     *)
(* Tensors are sequences; positions are 1-based here and 0-based in the    *)
(* source, index values (the sampler's output) are 0-based as in the       *)
(* source.                                                                 *)
(***************************************************************************)
EXTENDS Integers, Sequences, FiniteSets, TLC

VARIABLES sampler, restore, loss, collate, train, kl_point

vars == <<sampler, restore, loss, collate, train, kl_point>>

None == <<>>
Some(v) == <<v>>

\* A component that a specification does not exercise.
Off == [pc |-> "off"]

Min(a, b) == IF a < b THEN a ELSE b
Max(a, b) == IF a < b THEN b ELSE a

RECURSIVE PermSeqs(_)
\* All orders of the elements of the finite set S.
PermSeqs(S) ==
    IF S = {} THEN {<<>>}
    ELSE UNION {{<<x>> \o p : p \in PermSeqs(S \ {x})} : x \in S}

\* seq[from:to] of Python (0-based, to exclusive), clipped to the sequence.
PySlice(seq, from, to) ==
    LET hi == IF to < Len(seq) THEN to ELSE Len(seq)
    IN  [k \in 1..(IF hi > from THEN hi - from ELSE 0) |-> seq[from + k]]

Slice(seq, from, to) == [k \in 1..(IF to >= from THEN to - from + 1 ELSE 0) |-> seq[from + k - 1]]

(***************************************************************************)
(* PartialyRandomizedSimilarTimeLengthSampler                              *)
(***************************************************************************)
MaxExamples == 5
MaxLength == 2
MaxBatchSize == 2
MaxGroupBatches == 2
GroupFactor == 32

\* The example-length lists the sampler is built with: n examples whose
\* lengths cycle through 1..MaxLength from an offset (the sampler reads the
\* lengths only through torch.sort).
LengthLists ==
    {[i \in 1..n |-> ((i + k) % MaxLength) + 1] : n \in 1..MaxExamples, k \in 0..(MaxLength - 1)}

\* torch.sort(lengths)[1]: the indices in ascending order of length; the order
\* of equal lengths is not specified, so every such order is an outcome.
SortedIndices(lengths) ==
    {p \in PermSeqs(0..(Len(lengths) - 1)) :
        \A a, b \in 1..Len(p) : a < b => lengths[p[a] + 1] <= lengths[p[b] + 1]}

\* The default group size of __init__: min(batch_size * 32, len), lowered to a
\* multiple of batch_size.
DefaultGroupSize(batch_size, n) ==
    LET g == Min(batch_size * GroupFactor, n)
    IN  IF g % batch_size # 0 THEN g - (g % batch_size) ELSE g

RECURSIVE ViewSwaps(_, _)
\* random.shuffle's loop, for i = len-1 down to 1: x[i], x[j] = x[j], x[i] with
\* j <= i, on a tensor whose x[i] is a 0-dim view of the storage: the first
\* assignment writes old x[j] into x[i], the second reads x[i] through the view
\* and writes the same value back to x[j].
ViewSwaps(x, i) ==
    IF i < 2 THEN {x}
    ELSE UNION {ViewSwaps([x EXCEPT ![i] = x[j]], i - 1) : j \in 1..i}

\* random.shuffle(x) on a slice of a torch tensor. Where indexing yields a
\* value the result is any order of x; where it yields a view (torch >= 0.4)
\* the swaps alias. Both are outcomes of the call.
ShuffleTensor(x) ==
    {[k \in 1..Len(x) |-> x[p[k]]] : p \in PermSeqs(1..Len(x))} \cup ViewSwaps(x, Len(x))

\* random.shuffle(perm) on a numpy array: any order.
ShuffleArray(x) == {[k \in 1..Len(x) |-> x[p[k]]] : p \in PermSeqs(1..Len(x))}

\* indices[:e].view(-1, batch_size)[perm, :].view(-1): row r of the result is
\* row perm[r] of the first e indices (perm is 0-based).
PermuteRows(indices, e, batch_size, perm) ==
    [k \in 1..Len(indices) |->
        IF k <= e
        THEN indices[perm[((k - 1) \div batch_size) + 1] * batch_size + ((k - 1) % batch_size) + 1]
        ELSE indices[k]]

SamplerArgs ==
    {[lengths |-> l, batch_size |-> b, batch_group_size |-> g, permutate |-> p] :
        l \in LengthLists, b \in 1..MaxBatchSize,
        g \in {None} \cup {Some(m * c) : m \in 1..MaxBatchSize, c \in 1..MaxGroupBatches},
        p \in BOOLEAN}

SamplerInit ==
    /\ restore = Off /\ loss = Off /\ collate = Off /\ train = Off /\ kl_point = Off
    /\ \E a \in SamplerArgs :
        /\ a.batch_group_size # None => a.batch_group_size[1] % a.batch_size = 0
        /\ sampler = [pc |-> "args", lengths |-> a.lengths, batch_size |-> a.batch_size,
                      group_arg |-> a.batch_group_size, permutate |-> a.permutate,
                      batch_group_size |-> 0, sorted_indices |-> <<>>, indices |-> <<>>,
                      s |-> 0, e |-> 0, i |-> 0, exc |-> "none"]

\* __init__
SamplerConstruct ==
    /\ sampler.pc = "args"
    /\ \E si \in SortedIndices(sampler.lengths) :
        sampler' = [sampler EXCEPT
            !.pc = "constructed",
            !.sorted_indices = si,
            !.batch_group_size =
                IF sampler.group_arg = None
                THEN DefaultGroupSize(sampler.batch_size, Len(sampler.lengths))
                ELSE sampler.group_arg[1]]
    /\ UNCHANGED <<restore, loss, collate, train, kl_point>>

\* __iter__, to the head of its for loop; range(len // batch_group_size)
\* raises ZeroDivisionError for a group size of 0.
IterBegin ==
    /\ sampler.pc = "constructed"
    /\ sampler' = [sampler EXCEPT
            !.indices = sampler.sorted_indices, !.s = 0, !.e = 0, !.i = 0,
            !.pc = IF sampler.batch_group_size = 0 THEN "raised" ELSE "groups",
            !.exc = IF sampler.batch_group_size = 0 THEN "ZeroDivisionError" ELSE "none"]
    /\ UNCHANGED <<restore, loss, collate, train, kl_point>>

\* One pass of the for loop: shuffle group i in place.
IterGroup ==
    /\ sampler.pc = "groups"
    /\ sampler.i < Len(sampler.indices) \div sampler.batch_group_size
    /\ LET s == sampler.i * sampler.batch_group_size
           e == s + sampler.batch_group_size
       IN  \E g \in ShuffleTensor(Slice(sampler.indices, s + 1, e)) :
               sampler' = [sampler EXCEPT
                   !.s = s, !.e = e, !.i = sampler.i + 1,
                   !.indices = [k \in 1..Len(sampler.indices) |->
                                   IF k > s /\ k <= e THEN g[k - s] ELSE sampler.indices[k]]]
    /\ UNCHANGED <<restore, loss, collate, train, kl_point>>

\* After the loop: permutate the batches of indices[:e]. With e = 0 the
\* view(-1, batch_size) of the empty slice is refused by the builds that find
\* the -1 ambiguous for 0 elements (RuntimeError) and is an empty matrix on
\* the others.
IterPermutate ==
    /\ sampler.pc = "groups"
    /\ sampler.i >= Len(sampler.indices) \div sampler.batch_group_size
    /\ IF sampler.permutate /\ sampler.e = 0
       THEN \/ sampler' = [sampler EXCEPT !.pc = "raised", !.exc = "RuntimeError"]
            \/ sampler' = [sampler EXCEPT !.pc = "tail"]
       ELSE IF sampler.permutate
       THEN \E perm \in ShuffleArray([r \in 1..(sampler.e \div sampler.batch_size) |-> r - 1]) :
               sampler' = [sampler EXCEPT
                   !.pc = "tail",
                   !.indices = PermuteRows(sampler.indices, sampler.e, sampler.batch_size, perm)]
       ELSE sampler' = [sampler EXCEPT !.pc = "tail"]
    /\ UNCHANGED <<restore, loss, collate, train, kl_point>>

\* Handle last elements: s += batch_group_size; shuffle indices[s:] if s < len.
IterTail ==
    /\ sampler.pc = "tail"
    /\ LET s == sampler.s + sampler.batch_group_size
       IN  IF s < Len(sampler.indices)
           THEN \E t \in ShuffleTensor(Slice(sampler.indices, s + 1, Len(sampler.indices))) :
                   sampler' = [sampler EXCEPT
                       !.pc = "returned", !.s = s,
                       !.indices = [k \in 1..Len(sampler.indices) |->
                                       IF k > s THEN t[k - s] ELSE sampler.indices[k]]]
           ELSE sampler' = [sampler EXCEPT !.pc = "returned", !.s = s]
    /\ UNCHANGED <<restore, loss, collate, train, kl_point>>

SamplerNext ==
    \/ SamplerConstruct
    \/ IterBegin
    \/ IterGroup
    \/ IterPermutate
    \/ IterTail

SpecSampler == SamplerInit /\ [][SamplerNext]_vars

\* The yielded indices are a permutation of 0..n-1.
IsPermutation(indices, n) ==
    /\ Len(indices) = n
    /\ \A v \in 0..(n - 1) : Cardinality({k \in 1..Len(indices) : indices[k] = v}) = 1

\* C1: for every non-empty list of lengths, batch size >= 1 and group size that
\* is a multiple of the batch size (the default included), one pass of __iter__
\* completes and yields every index 0..n-1 exactly once.
C1_PassIsPermutation ==
    /\ sampler.pc # "raised"
    /\ sampler.pc = "returned" => IsPermutation(sampler.indices, Len(sampler.lengths))

(***************************************************************************)
(* restore_parts                                                           *)
(***************************************************************************)
NumParams == 3
MaxShape == 2
\* A parameter's value: as the model was built, or as the checkpoint holds it.
InitValue == "init"
CkptValue == "ckpt"

\* The target model's parameters, named 1..NumParams in state_dict order, and
\* the one name the model does not have.
ModelNames == 1..NumParams
ExtraName == NumParams + 1

\* torch's Module.load_state_dict differs between the builds the script runs on
\* (it branches on torch.__version__ < '1.0' itself): "first_error" copies the
\* entries in order and raises at the first size mismatch; "collect" copies
\* every entry whose size matches and raises after the last one.
TorchBuilds == {"first_error", "collect"}

\* Whether entry k of model_dict can be copied into the model's parameter k: an
\* entry that is None is the parameter's own tensor (state_dict() returns the
\* live tensors).
Fits(model, model_dict, k) ==
    model_dict[k] = None \/ model_dict[k][1].shape = model[k].shape

CopyEntry(model, model_dict, k) ==
    IF model_dict[k] = None THEN model[k]
    ELSE [shape |-> model[k].shape, value |-> model_dict[k][1].value]

\* model.load_state_dict(model_dict): the model afterwards and whether
\* RuntimeError was raised.
LoadStateDict(model, model_dict, build) ==
    LET bad == {k \in ModelNames : ~Fits(model, model_dict, k)}
        copied == IF build = "collect" THEN ModelNames \ bad
                  ELSE {k \in ModelNames : \A b \in bad : k < b}
    IN  [model |-> [k \in ModelNames |->
                        IF k \in copied THEN CopyEntry(model, model_dict, k) ELSE model[k]],
         raised |-> bad # {}]

\* valid_state_dict: the checkpoint's entries whose name the model has, in the
\* checkpoint's order.
ValidStateDict(state, model) == SelectSeq(state, LAMBDA en : en.name \in DOMAIN model)

RECURSIVE LoadPerParameter(_, _, _, _, _)
\* The except branch's loop from entry i of valid_state_dict on: model_dict[k] =
\* v stays set for every later pass; a RuntimeError of a pass is swallowed.
LoadPerParameter(model, model_dict, valid, i, build) ==
    IF i > Len(valid) THEN model
    ELSE LET d == [model_dict EXCEPT ![valid[i].name] =
                        Some([shape |-> valid[i].shape, value |-> valid[i].value])]
         IN  LoadPerParameter(LoadStateDict(model, d, build).model, d, valid, i + 1, build)

\* restore_parts(path, model): the model afterwards.
RestoreParts(state, model, build) ==
    LET valid == ValidStateDict(state, model)
        own == [k \in ModelNames |-> None]
        updated == [k \in ModelNames |->
                       IF \E i \in 1..Len(valid) : valid[i].name = k
                       THEN LET i == CHOOSE j \in 1..Len(valid) : valid[j].name = k
                            IN  Some([shape |-> valid[i].shape, value |-> valid[i].value])
                       ELSE None]
        first == LoadStateDict(model, updated, build)
    IN  IF ~first.raised THEN first.model
        ELSE LoadPerParameter(first.model, own, valid, 1, build)

\* The checkpoints: every order of every set of names among the model's and
\* the extra one, each entry of any shape, holding the checkpoint's value.
CheckpointStates ==
    UNION {UNION {{[i \in 1..Len(order) |->
                      [name |-> order[i], shape |-> sh[order[i]], value |-> CkptValue]] :
                    sh \in [names -> 1..MaxShape]} :
                  order \in PermSeqs(names)} :
           names \in SUBSET (ModelNames \cup {ExtraName})}

RestoreInit ==
    /\ sampler = Off /\ loss = Off /\ collate = Off /\ train = Off /\ kl_point = Off
    /\ \E st \in CheckpointStates, shapes \in [ModelNames -> 1..MaxShape], b \in TorchBuilds :
        restore = [pc |-> "call", build |-> b, state |-> st,
                   initial |-> [k \in ModelNames |-> [shape |-> shapes[k], value |-> InitValue]],
                   model |-> [k \in ModelNames |-> [shape |-> shapes[k], value |-> InitValue]]]

\* restore_parts, from its call to its return; it has no raise of its own and
\* catches the RuntimeError of every load_state_dict.
RestorePartsCall ==
    /\ restore.pc = "call"
    /\ restore' = [restore EXCEPT
            !.pc = "returned",
            !.model = RestoreParts(restore.state, restore.model, restore.build)]
    /\ UNCHANGED <<sampler, loss, collate, train, kl_point>>

RestoreNext == RestorePartsCall

SpecRestore == RestoreInit /\ [][RestoreNext]_vars

CkptEntries(k) == {i \in 1..Len(restore.state) : restore.state[i].name = k}
CkptHasCompatible(k) ==
    \E i \in CkptEntries(k) : restore.state[i].shape = restore.initial[k].shape
CkptHasIncompatible(k) ==
    \E i \in CkptEntries(k) : restore.state[i].shape # restore.initial[k].shape

\* C5: for a checkpoint with a parameter the model lacks and a same-named
\* parameter of incompatible shape, restore_parts returns with every
\* shape-compatible parameter holding the checkpoint's value, wherever it
\* stands relative to the incompatible one, and with the incompatible one at
\* its initial value.
C5_BestEffortPerParameter ==
    (/\ restore.pc = "returned"
     /\ CkptEntries(ExtraName) # {}
     /\ \E k \in ModelNames : CkptHasIncompatible(k))
    => \A k \in ModelNames :
          /\ restore.model[k].shape = restore.initial[k].shape
          /\ CkptHasCompatible(k) => restore.model[k].value = CkptValue
          /\ ~CkptHasCompatible(k) => restore.model[k].value = InitValue

(***************************************************************************)
(* The masked loss of __train_step: sequence_mask, KLLoss, PowerLoss       *)
(*                                                                         *)
(* Values are integers. exp and log are taken to base 2 (scales are powers *)
(* of two), which keeps every per-timestep KL value a rational; it is held *)
(* as its numerator over the common denominator KLScale. A loss is a       *)
(* record [num, den]; den = 0 is the 0/0 of torch (nan).                   *)
(***************************************************************************)
MaxBatch == 2
MaxT == 3
log_scale_min == 0
MaxLogScale == 2
LogScaleWeight == 4
HighBandWeight == 10

RECURSIVE Pow2(_)
Pow2(n) == IF n <= 0 THEN 1 ELSE 2 * Pow2(n - 1)

RECURSIVE Log2(_)
Log2(v) == IF v <= 1 THEN 0 ELSE 1 + Log2(v \div 2)

Abs(v) == IF v < 0 THEN 0 - v ELSE v

RECURSIVE SumSeq(_)
SumSeq(q) == IF q = <<>> THEN 0 ELSE Head(q) + SumSeq(Tail(q))

\* The sum of all entries of a (batch x time) tensor.
SumAll(m) == SumSeq([b \in 1..Len(m) |-> SumSeq(m[b])])

\* The common denominator of the per-timestep KL values: 2 * teacher_scale^2
\* at the largest teacher scale.
KLScale == 2 * Pow2(MaxLogScale) * Pow2(MaxLogScale)

\* sequence_mask with seq_range_expand + 1 < seq_length_expand.
sequence_mask_short(sequence_length, max_len) ==
    [b \in 1..Len(sequence_length) |->
        [p \in 1..max_len |-> IF p < sequence_length[b] THEN 1 ELSE 0]]

\* sequence_mask(sequence_length, max_len): 1.0 where the 0-based position is
\* below the example's length.
sequence_mask(sequence_length, max_len) ==
    [b \in 1..Len(sequence_length) |->
        [p \in 1..max_len |-> IF p - 1 < sequence_length[b] THEN 1 ELSE 0]]

\* m[:, 1:]
DropFirstStep(m) == [b \in 1..Len(m) |-> Tail(m[b])]

\* m[:, 1:] in place of m[:, :-1]
DropLastStep_Unshifted(m) == [b \in 1..Len(m) |-> Tail(m[b])]

\* m[:, :-1]
DropLastStep(m) == [b \in 1..Len(m) |-> SubSeq(m[b], 1, Len(m[b]) - 1)]

\* The KL value of one timestep, times KLScale: teacher log-scale clamped to
\* log_scale_min, loss1 = 4 * |tls - sls|^2, loss2 = log(ts / ss)
\* + (ss^2 - ts^2 + (smu - tmu)^2) / (2 * ts^2).
KLPoint(teacher_mu, teacher_log_scale_in, student_mu, student_scale, student_log_scale) ==
    LET teacher_log_scale == Max(teacher_log_scale_in, log_scale_min)
        teacher_scale == Pow2(teacher_log_scale)
        d == Abs(teacher_log_scale - student_log_scale)
        loss1 == LogScaleWeight * d * d
        logratio == Log2(teacher_scale) - Log2(student_scale)
        num == student_scale * student_scale - teacher_scale * teacher_scale
               + (student_mu - teacher_mu) * (student_mu - teacher_mu)
    IN  KLScale * (loss1 + logratio) + num * (KLScale \div (2 * teacher_scale * teacher_scale))

\* KLLoss.forward: the student's tensors from index 1 on against the teacher's
\* output up to the last index but one.
KLLossForward(t_mu, t_log_scale, s_mu, s_scale, s_log_scale) ==
    LET student_mu == DropFirstStep(s_mu)
        student_scale == DropFirstStep(s_scale)
        student_log_scale == DropFirstStep(s_log_scale)
        teacher_mu == DropLastStep(t_mu)
        teacher_log_scale == DropLastStep(t_log_scale)
    IN  [b \in 1..Len(student_mu) |->
            [q \in 1..Len(student_mu[b]) |->
                KLPoint(teacher_mu[b][q], teacher_log_scale[b][q], student_mu[b][q],
                        student_scale[b][q], student_log_scale[b][q])]]

\* The transform of PowerLoss.forward, scaled down: frames of two samples at
\* every position of the whole time axis (zero beyond its end), one low-band
\* bin |a + b| and one high-band bin |a - b| per frame.
SampleAt(x, p) == IF p <= Len(x) THEN x[p] ELSE 0
LowBand(x, f) == Abs(SampleAt(x, f) + SampleAt(x, f + 1))
HighBand(x, f) == Abs(SampleAt(x, f) - SampleAt(x, f + 1))

\* PowerLoss.forward for one example: the numerator of mean(loss) + 10 *
\* mean(loss1) over the frames; no length or mask enters it.
PowerLossForward(student_hat, y) ==
    SumSeq([f \in 1..Len(y) |->
        (LowBand(student_hat, f) - LowBand(y, f)) * (LowBand(student_hat, f) - LowBand(y, f))
        + HighBandWeight * (HighBand(student_hat, f) - HighBand(y, f))
                         * (HighBand(student_hat, f) - HighBand(y, f))])

\* mask = sequence_mask(input_lengths, max_len=x.size(-1))[:, 1:]
LossMask(input_lengths, T) == DropFirstStep(sequence_mask(input_lengths, T))

\* kl_loss = ((kl_loss * mask).sum()) / mask.sum()
MaskedKL(run, input_lengths, T) ==
    LET mask == LossMask(input_lengths, T)
        kl == KLLossForward(run.teacher_mu, run.teacher_log_scale, run.student_mu,
                            run.student_scale, run.student_log_scale)
    IN  [num |-> SumAll([b \in 1..Len(kl) |-> [q \in 1..Len(kl[b]) |-> kl[b][q] * mask[b][q]]]),
         den |-> SumAll(mask)]

\* power_loss = torch.mean(pl_criterion(student_hat, y))
MeanPower(run, y, T) ==
    [num |-> SumSeq([b \in 1..Len(y) |-> PowerLossForward(run.student_hat[b], y[b])]),
     den |-> T * Len(y)]

\* What the two models emit at one timestep, and the target sample there.
StepValues ==
    << [teacher_mu |-> 0, teacher_log_scale |-> 0, student_mu |-> 0, student_scale |-> 1,
        student_log_scale |-> 0, student_hat |-> 0, y |-> 1],
       [teacher_mu |-> 1, teacher_log_scale |-> 1, student_mu |-> 0, student_scale |-> 2,
        student_log_scale |-> 1, student_hat |-> 1, y |-> 0],
       [teacher_mu |-> 0, teacher_log_scale |-> 0 - 1, student_mu |-> 2, student_scale |-> 4,
        student_log_scale |-> MaxLogScale, student_hat |-> 0, y |-> 1],
       [teacher_mu |-> 1, teacher_log_scale |-> MaxLogScale, student_mu |-> 1, student_scale |-> 1,
        student_log_scale |-> 0, student_hat |-> 2, y |-> 2] >>

\* The tensors of one run from a table (batch x time) of indices into StepValues.
RunOf(table) ==
    [teacher_mu |-> [b \in 1..Len(table) |-> [p \in 1..Len(table[b]) |-> StepValues[table[b][p]].teacher_mu]],
     teacher_log_scale |-> [b \in 1..Len(table) |-> [p \in 1..Len(table[b]) |-> StepValues[table[b][p]].teacher_log_scale]],
     student_mu |-> [b \in 1..Len(table) |-> [p \in 1..Len(table[b]) |-> StepValues[table[b][p]].student_mu]],
     student_scale |-> [b \in 1..Len(table) |-> [p \in 1..Len(table[b]) |-> StepValues[table[b][p]].student_scale]],
     student_log_scale |-> [b \in 1..Len(table) |-> [p \in 1..Len(table[b]) |-> StepValues[table[b][p]].student_log_scale]],
     student_hat |-> [b \in 1..Len(table) |-> [p \in 1..Len(table[b]) |-> StepValues[table[b][p]].student_hat]]]

\* The target of a batch as collate_fn pads it: zero from the valid length on.
TargetOf(table, input_lengths) ==
    [b \in 1..Len(table) |->
        [p \in 1..Len(table[b]) |-> IF p <= input_lengths[b] THEN StepValues[table[b][p]].y ELSE 0]]

\* The valid-length vectors of non-empty batches with at least one sample;
\* the time dimension is the largest length.
LengthVectors ==
    {l \in UNION {[1..n -> 0..MaxT] : n \in 1..MaxBatch} : \E b \in 1..Len(l) : l[b] >= 1}

TimeDim(input_lengths) ==
    CHOOSE t \in 0..MaxT : (\A b \in 1..Len(input_lengths) : input_lengths[b] <= t)
                           /\ (\E b \in 1..Len(input_lengths) : input_lengths[b] = t)

\* Two runs over one batch: the values cycle through StepValues along the time
\* axis from an offset, and the second run is the first with the values of at
\* most one padded timestep replaced.
LossInit ==
    /\ sampler = Off /\ restore = Off /\ collate = Off /\ train = Off /\ kl_point = Off
    /\ \E l \in LengthVectors :
        \E seed \in 1..Len(StepValues) :
            LET T == TimeDim(l)
                table == [b \in 1..Len(l) |-> [p \in 1..T |-> ((seed + b + p) % Len(StepValues)) + 1]]
                padded == {<<b, p>> \in (1..Len(l)) \X (1..T) : p > l[b]}
            IN  \E change \in {None} \cup {Some(<<c[1], c[2], v>>) : c \in padded, v \in 1..Len(StepValues)} :
                    loss = [pc |-> "input", input_lengths |-> l, T |-> T,
                            y |-> TargetOf(table, l),
                            first |-> RunOf(table),
                            second |-> RunOf(IF change = None THEN table
                                             ELSE [table EXCEPT ![change[1][1]][change[1][2]] = change[1][3]]),
                            kl_loss |-> <<>>, power_loss |-> <<>>]

\* The loss computation of __train_step on both runs.
ComputeLoss ==
    /\ loss.pc = "input"
    /\ loss' = [loss EXCEPT
            !.pc = "done",
            !.kl_loss = <<MaskedKL(loss.first, loss.input_lengths, loss.T),
                          MaskedKL(loss.second, loss.input_lengths, loss.T)>>,
            !.power_loss = <<MeanPower(loss.first, loss.y, loss.T),
                             MeanPower(loss.second, loss.y, loss.T)>>]
    /\ UNCHANGED <<sampler, restore, collate, train, kl_point>>

LossNext == ComputeLoss

SpecLoss == LossInit /\ [][LossNext]_vars

\* C6: two runs that agree below every valid length and differ only at padded
\* timesteps compute the same KL loss and the same power loss.
C6_LossIgnoresPadding ==
    loss.pc = "done" =>
        /\ loss.kl_loss[1] = loss.kl_loss[2]
        /\ loss.power_loss[1] = loss.power_loss[2]

\* The KL half of C6 alone.
KLIgnoresPadding == loss.pc = "done" => loss.kl_loss[1] = loss.kl_loss[2]

\* C7 as stated: with at least one example of valid length >= 1 the divisor of
\* the masked KL average is >= 1.
C7_DivisorPositive_Original ==
    (loss.pc = "done" /\ \E b \in 1..Len(loss.input_lengths) : loss.input_lengths[b] >= 1)
    => loss.kl_loss[1].den >= 1

\* C7 amended: with at least one example of valid length >= 2 the divisor of
\* the masked KL average, the sum of the mask after its first timestep is
\* dropped, is >= 1.
C7_DivisorPositive ==
    (loss.pc = "done" /\ \E b \in 1..Len(loss.input_lengths) : loss.input_lengths[b] >= 2)
    => loss.kl_loss[1].den >= 1

\* A batch with a padded example and one of valid length >= 2 has been through
\* the loss computation.
C7_Witness ==
    /\ loss.pc = "done"
    /\ \E b \in 1..Len(loss.input_lengths) : loss.input_lengths[b] >= 2
    /\ \E b \in 1..Len(loss.input_lengths) : loss.input_lengths[b] < loss.T
    /\ loss.kl_loss[1].den >= 1

(***************************************************************************)
(* collate_fn, for hop-aligned conditioning                                *)
(* (hparams.upsample_conditional_features) and for no conditioning         *)
(***************************************************************************)
MaxCollateBatch == 2
MaxFrames == 3
MaxTimeSteps == 5
hop_size == 2
quantize_channels == 2

\* _pad(seq, max_len): constant_values = 0.
_pad_ones(seq, max_len) == [p \in 1..max_len |-> IF p <= Len(seq) THEN seq[p] ELSE 1]

_pad(seq, max_len) == [p \in 1..max_len |-> IF p <= Len(seq) THEN seq[p] ELSE 0]

\* _pad_2d(x, max_len): rows of zeros after the last row of x (b_pad = 0).
_pad_2d(x, max_len, width) ==
    [p \in 1..max_len |-> IF p <= Len(x) THEN x[p] ELSE [ch \in 1..width |-> 0]]

\* np_utils.to_categorical(x, num_classes): one one-hot row per sample.
to_categorical(x, num_classes) ==
    [p \in 1..Len(x) |-> [ch \in 1..num_classes |-> IF x[p] = ch - 1 THEN 1 ELSE 0]]

\* x.reshape(-1, 1)
AsColumn(x) == [p \in 1..Len(x) |-> <<x[p]>>]

\* transpose(1, 2) of one example: (T, C) to (C, T).
ChannelFirst(rows, width) == [ch \in 1..width |-> [p \in 1..Len(rows) |-> rows[p][ch]]]

ensure_divisible_upper(length, divisible_by, lower) ==
    IF length % divisible_by = 0 THEN length
    ELSE length + (divisible_by - (length % divisible_by))

ensure_divisible(length, divisible_by, lower) ==
    IF length % divisible_by = 0 THEN length
    ELSE IF lower THEN length - (length % divisible_by)
    ELSE length + (divisible_by - (length % divisible_by))

\* assert_ready_for_upsampling(x, c): "none" when it passes.
assert_ready_for_upsampling(x, c) ==
    IF Len(c) = 0 THEN "ZeroDivisionError"
    ELSE IF Len(x) % Len(c) = 0 /\ Len(x) \div Len(c) = hop_size THEN "none"
    ELSE "AssertionError"

\* audio.trim(x): leading and trailing silence (zero samples) removed.
trim(x) ==
    LET loud == {p \in 1..Len(x) : x[p] # 0}
    IN  IF loud = {} THEN <<>>
        ELSE LET a == CHOOSE p \in loud : \A q \in loud : p <= q
                 z == CHOOSE p \in loud : \A q \in loud : q <= p
             IN  SubSeq(x, a, z)

Adjusted(exc, x, c, g, start) == [exc |-> exc, x |-> x, c |-> c, g |-> g, start |-> start]

\* The time resolution adjustment of one example with hop-aligned
\* conditioning: every outcome of the random crop.
AdjustHopAligned(ex, max_time_steps) ==
    LET ready == assert_ready_for_upsampling(ex.x, ex.c[1])
        c == ex.c[1]
        max_steps == ensure_divisible(max_time_steps[1], hop_size, TRUE)
        max_time_frames == max_steps \div hop_size
    IN  IF ready # "none" THEN {Adjusted(ready, ex.x, ex.c, ex.g, 0)}
        ELSE IF max_time_steps = None \/ ~(Len(ex.x) > max_steps)
        THEN {Adjusted("none", ex.x, ex.c, ex.g, 0)}
        ELSE IF Len(c) - max_time_frames <= 0
        THEN {Adjusted("ValueError", ex.x, ex.c, ex.g, 0)}
        ELSE {LET ts == s * hop_size
                  x == PySlice(ex.x, ts, ts + hop_size * max_time_frames)
                  cc == PySlice(c, s, s + max_time_frames)
              IN  Adjusted(assert_ready_for_upsampling(x, cc), x, Some(cc), ex.g, ts) :
              s \in 0..(Len(c) - max_time_frames - 1)}

\* The branch without local conditioning: trim, then the random crop.
AdjustUnconditioned(ex, max_time_steps) ==
    LET x == trim(ex.x)
        lead == IF x = <<>> THEN 0 ELSE (CHOOSE p \in 1..Len(ex.x) : ex.x[p] # 0 /\ \A q \in 1..(p - 1) : ex.x[q] = 0) - 1
    IN  IF max_time_steps # None /\ Len(x) > max_time_steps[1]
        THEN {Adjusted("none", PySlice(x, s, s + max_time_steps[1]), ex.c, ex.g, lead + s) :
              s \in 0..(Len(x) - max_time_steps[1] - 1)}
        ELSE {Adjusted("none", x, ex.c, ex.g, lead)}

\* One pass of either for loop of the time resolution adjustment.
AdjustExample(ex, local_conditioning, max_time_steps) ==
    IF local_conditioning THEN AdjustHopAligned(ex, max_time_steps)
    ELSE AdjustUnconditioned(ex, max_time_steps)

\* The examples of a batch: example b has `frames` conditioning frames (frame
\* k holds k) and frames * hop_size samples, one more when `odd`; the sample at
\* 0-based position p is (p + b) mod quantize_channels. c and g are None when
\* the dataset has no conditioning or no speaker ids.
Example(b, frames, odd, local_conditioning, multi_speaker) ==
    [x |-> [p \in 1..(frames * hop_size + (IF odd THEN 1 ELSE 0)) |-> (p - 1 + b) % quantize_channels],
     c |-> IF local_conditioning THEN Some([k \in 1..frames |-> k]) ELSE None,
     g |-> IF multi_speaker THEN Some(b) ELSE None]

RECURSIVE AdjustBatch(_, _, _)
\* The adjusted examples of the first n examples of a batch: one outcome of
\* the random crop for each.
AdjustBatch(batch, n, cfg) ==
    IF n = 0 THEN {<<>>}
    ELSE {Append(done, a) :
            done \in AdjustBatch(batch, n - 1, cfg),
            a \in AdjustExample(batch[n], cfg.local_conditioning, cfg.max_time_steps)}

\* The batches: 1..MaxCollateBatch examples of 1..MaxFrames frames, at most one
\* of them with a sample too many; a raw single-speaker dataset or a
\* mu-law-quantized multi-speaker one.
CollateInit ==
    /\ sampler = Off /\ restore = Off /\ loss = Off /\ train = Off /\ kl_point = Off
    /\ \E n \in 1..MaxCollateBatch, local_conditioning \in BOOLEAN, quantized \in BOOLEAN,
          max_time_steps \in {None} \cup {Some(m) : m \in 1..MaxTimeSteps} :
        \E frames \in [1..n -> 1..MaxFrames], odd \in 0..n :
            collate = [pc |-> "call", exc |-> "none",
                       local_conditioning |-> local_conditioning,
                       global_conditioning |-> quantized,
                       is_mulaw_quantize |-> quantized,
                       max_time_steps |-> max_time_steps,
                       batch |-> [b \in 1..n |->
                                    Example(b, frames[b], odd = b, local_conditioning, quantized)],
                       new_batch |-> <<>>, input_lengths |-> <<>>,
                       x_batch |-> <<>>, y_batch |-> <<>>, c_batch |-> None, g_batch |-> None]

\* collate_fn(batch) to its return: every example adjusted, lengths taken,
\* everything padded to the longest example and laid out channel first.
CollateFn ==
    /\ collate.pc = "call"
    /\ \E new_batch \in AdjustBatch(collate.batch, Len(collate.batch), collate) :
        /\ LET failed == {b \in 1..Len(new_batch) : new_batch[b].exc # "none"}
               input_lengths == [b \in 1..Len(new_batch) |-> Len(new_batch[b].x)]
               max_input_len == CHOOSE t \in {input_lengths[b] : b \in 1..Len(new_batch)} :
                                    \A b \in 1..Len(new_batch) : input_lengths[b] <= t
               width == IF collate.is_mulaw_quantize THEN quantize_channels ELSE 1
               max_len == CHOOSE t \in {Len(new_batch[b].c[1]) : b \in 1..Len(new_batch)} :
                              \A b \in 1..Len(new_batch) : Len(new_batch[b].c[1]) <= t
           IN  IF failed # {}
               THEN collate' = [collate EXCEPT
                        !.pc = "raised",
                        !.exc = new_batch[CHOOSE b \in failed : \A o \in failed : b <= o].exc]
               ELSE collate' = [collate EXCEPT
                        !.pc = "returned",
                        !.new_batch = new_batch,
                        !.input_lengths = input_lengths,
                        !.x_batch = [b \in 1..Len(new_batch) |->
                            ChannelFirst(
                                _pad_2d(IF collate.is_mulaw_quantize
                                        THEN to_categorical(new_batch[b].x, quantize_channels)
                                        ELSE AsColumn(new_batch[b].x), max_input_len, width),
                                width)],
                        !.y_batch = [b \in 1..Len(new_batch) |-> _pad(new_batch[b].x, max_input_len)],
                        !.c_batch = IF collate.local_conditioning
                                    THEN Some([b \in 1..Len(new_batch) |->
                                            ChannelFirst(_pad_2d(AsColumn(new_batch[b].c[1]), max_len, 1), 1)])
                                    ELSE None,
                        !.g_batch = IF collate.global_conditioning
                                    THEN Some([b \in 1..Len(new_batch) |-> new_batch[b].g[1]])
                                    ELSE None]
    /\ UNCHANGED <<sampler, restore, loss, train, kl_point>>

CollateNext == CollateFn

SpecCollate == CollateInit /\ [][CollateNext]_vars

\* The time dimension of the returned waveform and target tensors.
TimeOf(tensor) == Len(tensor[1])

\* What x_batch holds for a sample: the sample, or its one-hot column.
Encoded(sample, ch) ==
    IF collate.is_mulaw_quantize THEN (IF sample = ch - 1 THEN 1 ELSE 0) ELSE sample

\* C8: in every batch collate_fn returns, each valid length is at most the time
\* dimension of the waveform and target tensors, which is the largest valid
\* length; example i is exactly zero from valid-length[i] on and holds the
\* (possibly trimmed and cropped) example's samples below it.
C8_PaddedBatch ==
    collate.pc = "returned" =>
        \A b \in 1..Len(collate.batch) :
            LET n == collate.input_lengths[b]
                start == collate.new_batch[b].start
            IN  /\ Len(collate.y_batch[b]) = TimeOf(collate.y_batch)
                /\ \A ch \in 1..Len(collate.x_batch[b]) :
                      Len(collate.x_batch[b][ch]) = TimeOf(collate.y_batch)
                /\ n <= TimeOf(collate.y_batch)
                /\ \E o \in 1..Len(collate.batch) : collate.input_lengths[o] = TimeOf(collate.y_batch)
                /\ \A p \in 1..TimeOf(collate.y_batch) :
                      IF p > n
                      THEN /\ collate.y_batch[b][p] = 0
                           /\ \A ch \in 1..Len(collate.x_batch[b]) : collate.x_batch[b][ch][p] = 0
                      ELSE /\ collate.y_batch[b][p] = collate.batch[b].x[start + p]
                           /\ \A ch \in 1..Len(collate.x_batch[b]) :
                                 collate.x_batch[b][ch][p] = Encoded(collate.batch[b].x[start + p], ch)

\* A returned batch with a cropped example and a padded example whose dropped
\* samples were not all zero.
C8_Witness ==
    /\ collate.pc = "returned"
    /\ \E b \in 1..Len(collate.batch) :
          /\ collate.new_batch[b].start > 0
          /\ collate.input_lengths[b] < Len(collate.batch[b].x)
    /\ \E b \in 1..Len(collate.batch) :
          /\ collate.input_lengths[b] >= 1
          /\ collate.input_lengths[b] < TimeOf(collate.y_batch)

(***************************************************************************)
(* The training run: __main__, train_loop, __train_step, save_checkpoint   *)
(* and load_checkpoint, over two processes that share a checkpoint         *)
(* directory.                                                              *)
(*                                                                         *)
(* Each network has two parameters, one whose name contains "upsample"     *)
(* and one whose name does not. A parameter value is an integer number of  *)
(* 1/Unit steps, so the halving of the moving average is exact.            *)
(* --restore-parts is not given (restore_parts is modelled on its own      *)
(* above); the teacher checkpoint fits the teacher. eval_model and         *)
(* save_states write audio files and plots only and are left out.          *)
(***************************************************************************)
MaxEpochs == 2
MaxTrainBatches == 2

ParamNames == {"upsample", "conv"}

Unit == Pow2(2 * MaxEpochs * MaxTrainBatches)

\* build_model(name): freshly initialised, trainable parameters.
build_model(name) ==
    [k \in ParamNames |->
        [data |-> IF name = "teacher" THEN 0 ELSE (IF k = "upsample" THEN Unit ELSE 2 * Unit),
         requires_grad |-> TRUE]]

\* The state_dict of the pretrained teacher checkpoint.
TeacherCheckpoint == [k \in ParamNames |-> IF k = "upsample" THEN 3 * Unit ELSE 4 * Unit]

\* model.state_dict()
state_dict(model) == [k \in ParamNames |-> model[k].data]

\* model.load_state_dict(state) for a state of the model's own architecture.
load_state_dict(model, state) == [k \in ParamNames |-> [model[k] EXCEPT !.data = state[k]]]

\* share_upsample_conv(teacher, student): the student afterwards and the
\* returned student_train_params.
share_upsample_conv(teacher, student) ==
    [student |-> [k \in ParamNames |->
                    IF k = "upsample"
                    THEN [data |-> teacher[k].data, requires_grad |-> FALSE]
                    ELSE student[k]],
     student_train_params |-> {<<"student", k>> : k \in ParamNames \ {"upsample"}}]

\* sanity_check(model, c, g): "none" when it returns.
sanity_check_lenient(needs, c, g) == "none"

sanity_check(needs, c, g) ==
    IF needs.g /\ g = None THEN "RuntimeError"
    ELSE IF ~needs.g /\ g # None THEN "RuntimeError"
    ELSE IF needs.c /\ c = None THEN "RuntimeError"
    ELSE IF ~needs.c /\ c # None THEN "RuntimeError"
    ELSE "none"

\* lrschedule.<hparams.lr_schedule>(init_lr, step): a linear warm-up.
lr_schedule_f(init_lr, step) == init_lr * (step + 1)

\* loss.backward() and optimizer.step(): a parameter moves, by the learning
\* rate, when the optimizer holds it and backward gave it a gradient.
OptimizerStep_Everything(models, optimizer) ==
    [m \in {"student", "teacher"} |->
        [k \in ParamNames |-> [models[m][k] EXCEPT !.data = @ - optimizer.lr * Unit]]]

OptimizerStep(models, optimizer) ==
    [m \in {"student", "teacher"} |->
        [k \in ParamNames |->
            IF <<m, k>> \in optimizer.params /\ models[m][k].requires_grad
            THEN [models[m][k] EXCEPT !.data = @ - optimizer.lr * Unit]
            ELSE models[m][k]]]

\* ExponentialMovingAverage.register for every trainable student parameter.
ema_register(student) ==
    [k \in {n \in ParamNames : student[n].requires_grad} |-> student[k].data]

\* update with shadow -= update_delta: the (1 - decay) factor left out.
ema_update_Replace(shadow, student) ==
    [k \in DOMAIN shadow |-> shadow[k] - (shadow[k] - student[k].data)]

\* ExponentialMovingAverage.update for every shadowed name, with
\* hparams.ema_decay = 1/2: shadow -= (1 - decay) * (shadow - x).
ema_update(shadow, student) ==
    [k \in DOMAIN shadow |-> shadow[k] - ((shadow[k] - student[k].data) \div 2)]

\* clone_as_averaged_model(device, model, ema).state_dict()
clone_as_averaged_model(model, shadow) ==
    [k \in ParamNames |-> IF k \in DOMAIN shadow THEN shadow[k] ELSE model[k].data]

\* The dictionary save_checkpoint hands to torch.save.
CheckpointDict_NoTestStep(tr, state, step, epoch) ==
    [state_dict |-> state,
     optimizer |-> IF tr.hparams.save_optimizer_state
                   THEN Some([lr |-> tr.optimizer.lr, t |-> tr.optimizer.t]) ELSE None,
     global_step |-> step, global_epoch |-> epoch, global_test_step |-> Some(0)]

CheckpointDict(tr, state, step, epoch) ==
    [state_dict |-> state,
     optimizer |-> IF tr.hparams.save_optimizer_state
                   THEN Some([lr |-> tr.optimizer.lr, t |-> tr.optimizer.t]) ELSE None,
     global_step |-> step, global_epoch |-> epoch,
     global_test_step |-> Some(tr.global_test_step)]

\* "checkpoint_step{:09d}.pth".format(global_step), with "_ema" for the
\* averaged model.
CheckpointPath(global_step, suffix) == <<global_step, suffix>>

\* torch.save(content, path) for the parameters `state`; at_save notes them and
\* the process's counters at that moment.
TorchSave(files, tr, state, content, path) ==
    {f \in files : f.path # path} \cup
    {[path |-> path, content |-> content,
      at_save |-> [state_dict |-> state,
                   global_step |-> tr.global_step, global_epoch |-> tr.global_epoch,
                   global_test_step |-> tr.global_test_step]]}

\* save_checkpoint(device, model, optimizer, step, checkpoint_dir, epoch, ema)
\* in the process state tr: the directory afterwards and the paths written.
save_checkpoint(tr, step, epoch, ema) ==
    LET path == CheckpointPath(tr.global_step, "")
        own == state_dict(tr.student)
        first == TorchSave(tr.files, tr, own, CheckpointDict(tr, own, step, epoch), path)
        ema_path == CheckpointPath(tr.global_step, "_ema")
        averaged == clone_as_averaged_model(tr.student, ema[1])
    IN  IF ema = None THEN [files |-> first, written |-> <<path>>]
        ELSE [files |-> TorchSave(first, tr, averaged,
                                  CheckpointDict(tr, averaged, step, epoch), ema_path),
              written |-> <<path, ema_path>>]

\* _load(path)
TorchLoad(files, path) == (CHOOSE f \in files : f.path = path).content

\* load_checkpoint with the counters under "if not reset_optimizer" as well.
load_checkpoint_KeepCounters(tr, path, reset_optimizer) ==
    LET checkpoint == TorchLoad(tr.files, path)
    IN  IF reset_optimizer
        THEN [tr EXCEPT !.student = load_state_dict(tr.student, checkpoint.state_dict)]
        ELSE [tr EXCEPT
                !.student = load_state_dict(tr.student, checkpoint.state_dict),
                !.optimizer = IF checkpoint.optimizer # None
                              THEN [tr.optimizer EXCEPT !.lr = checkpoint.optimizer[1].lr,
                                                        !.t = checkpoint.optimizer[1].t]
                              ELSE tr.optimizer,
                !.global_step = checkpoint.global_step,
                !.global_epoch = checkpoint.global_epoch,
                !.global_test_step = IF checkpoint.global_test_step # None
                                     THEN checkpoint.global_test_step[1] ELSE 0]

\* load_checkpoint(path, model, optimizer, reset_optimizer) in the process
\* state tr.
load_checkpoint(tr, path, reset_optimizer) ==
    LET checkpoint == TorchLoad(tr.files, path)
    IN  [tr EXCEPT
            !.student = load_state_dict(tr.student, checkpoint.state_dict),
            !.optimizer = IF ~reset_optimizer /\ checkpoint.optimizer # None
                          THEN [tr.optimizer EXCEPT !.lr = checkpoint.optimizer[1].lr,
                                                    !.t = checkpoint.optimizer[1].t]
                          ELSE tr.optimizer,
            !.global_step = checkpoint.global_step,
            !.global_epoch = checkpoint.global_epoch,
            !.global_test_step = IF checkpoint.global_test_step # None
                                 THEN checkpoint.global_test_step[1] ELSE 0]

\* "update global state" of train_loop.
UpdateGlobalState_Reset(tr, is_train) ==
    IF is_train THEN [tr EXCEPT !.global_step = @ + 1, !.global_test_step = 0]
    ELSE [tr EXCEPT !.global_test_step = @ + 1]

UpdateGlobalState(tr, is_train) ==
    IF is_train THEN [tr EXCEPT !.global_step = @ + 1]
    ELSE [tr EXCEPT !.global_test_step = @ + 1]

\* The except clause of __main__: the exceptions it swallows.
Handled_Nothing(exc) == FALSE

Handled(exc) == exc = "KeyboardInterrupt"

\* The dataset and the networks' declared conditioning: what every batch
\* carries (c, g) and what has_speaker_embedding() and
\* local_conditioning_enabled() answer for each network.
Conditioning ==
    LET yes == [c |-> TRUE, g |-> FALSE]
        no == [c |-> FALSE, g |-> FALSE]
        spk == [c |-> TRUE, g |-> TRUE]
    IN  {[c |-> Some("c"), g |-> None, student |-> yes, teacher |-> yes],
         [c |-> Some("c"), g |-> Some("g"), student |-> spk, teacher |-> spk],
         [c |-> Some("c"), g |-> None, student |-> spk, teacher |-> yes],
         [c |-> Some("c"), g |-> None, student |-> yes, teacher |-> no],
         [c |-> None, g |-> None, student |-> yes, teacher |-> yes]}

\* hparams: the learning rate and its schedule.
LearningRates ==
    {[initial_learning_rate |-> 0, lr_schedule |-> None],
     [initial_learning_rate |-> 1, lr_schedule |-> None],
     [initial_learning_rate |-> 1, lr_schedule |-> Some("warmup")]}

\* A process at the top of the script: the module globals of lines 63-65.
Process(hparams, data, files, args, run) ==
    [pc |-> "start", run |-> run, hparams |-> hparams, data |-> data, files |-> files,
     args |-> args, global_step |-> 0, global_test_step |-> 0, global_epoch |-> 0,
     student |-> None, teacher |-> None, optimizer |-> None, ema |-> None,
     teacher_at_start |-> None, phase |-> "none", i |-> 0, exc |-> "none",
     final |-> <<>>]

Init ==
    /\ sampler = Off /\ restore = Off /\ loss = Off /\ collate = Off /\ kl_point = Off
    /\ \E nepochs \in 1..MaxEpochs,
          checkpoint_interval \in 1..2, lr \in LearningRates, cond \in Conditioning,
          exponential_moving_average \in BOOLEAN, share \in BOOLEAN,
          save_optimizer_state \in BOOLEAN :
        train = Process([nepochs |-> nepochs, checkpoint_interval |-> checkpoint_interval,
                         initial_learning_rate |-> lr.initial_learning_rate,
                         lr_schedule |-> lr.lr_schedule,
                         exponential_moving_average |-> exponential_moving_average,
                         share_upsample_conv |-> share,
                         save_optimizer_state |-> save_optimizer_state],
                        [train |-> MaxTrainBatches, test |-> 1, cond |-> cond],
                        {},
                        [checkpoint_student_path |-> None, reset_optimizer |-> FALSE],
                        "first")

\* __main__ from the model construction to the teacher's restore.
Setup ==
    /\ train.pc = "start"
    /\ LET teacher == build_model("teacher")
           student == build_model("student")
           shared == IF train.hparams.share_upsample_conv
                     THEN share_upsample_conv(teacher, student)
                     ELSE [student |-> student,
                           student_train_params |-> {<<"student", k>> : k \in ParamNames}]
           restored == load_state_dict(teacher, TeacherCheckpoint)
       IN  train' = [train EXCEPT
                !.pc = "built",
                !.student = shared.student,
                !.optimizer = [params |-> shared.student_train_params,
                               lr |-> train.hparams.initial_learning_rate, t |-> 0],
                !.teacher = [k \in ParamNames |-> [restored[k] EXCEPT !.requires_grad = FALSE]]]
    /\ UNCHANGED <<sampler, restore, loss, collate, kl_point>>

\* if checkpoint_student_path is not None: load_checkpoint(...)
LoadCheckpoint ==
    /\ train.pc = "built"
    /\ train.args.checkpoint_student_path # None
    /\ train' = [load_checkpoint(train, train.args.checkpoint_student_path[1],
                                 train.args.reset_optimizer) EXCEPT !.pc = "loaded"]
    /\ UNCHANGED <<sampler, restore, loss, collate, kl_point>>

\* The entry of train_loop: the moving average is set up.
TrainLoopEnter ==
    /\ \/ train.pc = "built" /\ train.args.checkpoint_student_path = None
       \/ train.pc = "loaded"
    /\ train' = [train EXCEPT
            !.pc = "while",
            !.ema = IF train.hparams.exponential_moving_average
                    THEN Some(ema_register(train.student)) ELSE None,
            !.teacher_at_start = Some(train.teacher)]
    /\ UNCHANGED <<sampler, restore, loss, collate, kl_point>>

\* global_epoch < hparams.nepochs
EpochsRemain_Inclusive(global_epoch, nepochs) == global_epoch <= nepochs

EpochsRemain(global_epoch, nepochs) == global_epoch < nepochs

\* while global_epoch < hparams.nepochs
EpochCheck ==
    /\ train.pc = "while"
    /\ train' = IF EpochsRemain(train.global_epoch, train.hparams.nepochs)
                THEN [train EXCEPT !.pc = "for", !.phase = "train", !.i = 0]
                ELSE [train EXCEPT !.pc = "finally"]
    /\ UNCHANGED <<sampler, restore, loss, collate, kl_point>>

\* if train and step > 0 and step % hparams.checkpoint_interval == 0
PeriodicSaveDue_AtZero(is_train, step, checkpoint_interval) == is_train /\ step % checkpoint_interval = 0

PeriodicSaveDue(is_train, step, checkpoint_interval) == is_train /\ step > 0 /\ step % checkpoint_interval = 0

\* train = (phase == "train")
IsTrain_Always(phase) == TRUE

IsTrain(phase) == phase = "train"

\* __train_step for a batch, from its call to its return or raise, in the
\* process state tr.
TrainStep(tr, is_train) ==
    LET step == IF is_train THEN tr.global_step ELSE tr.global_test_step
        cond == tr.data.cond
        c1 == sanity_check(cond.student, cond.c, cond.g)
        c2 == sanity_check(cond.teacher, cond.c, cond.g)
        scheduled == is_train /\ tr.hparams.lr_schedule # None
        lr_set == IF scheduled
                  THEN [tr EXCEPT !.optimizer.lr =
                            lr_schedule_f(tr.hparams.initial_learning_rate, step)]
                  ELSE tr
        saved == IF PeriodicSaveDue(is_train, step, tr.hparams.checkpoint_interval)
                 THEN [lr_set EXCEPT !.files =
                            save_checkpoint(lr_set, step, lr_set.global_epoch, lr_set.ema).files]
                 ELSE lr_set
        models == OptimizerStep([student |-> saved.student, teacher |-> saved.teacher],
                                saved.optimizer)
    IN  IF c1 # "none" THEN [tr EXCEPT !.pc = "finally", !.exc = c1]
        ELSE IF c2 # "none" THEN [tr EXCEPT !.pc = "finally", !.exc = c2]
        ELSE IF ~is_train THEN saved
        ELSE [saved EXCEPT
                !.student = models.student,
                !.teacher = models.teacher,
                !.optimizer.t = @ + 1,
                !.ema = IF saved.ema = None THEN None
                        ELSE Some(ema_update(saved.ema[1], models.student))]

\* One pass of "for step, (x, y, c, g, input_lengths) in enumerate(data_loader)".
Step ==
    /\ train.pc = "for"
    /\ train.i < train.data[train.phase]
    /\ LET is_train == IsTrain(train.phase)
           after == TrainStep(train, is_train)
       IN  train' = IF after.exc # "none" THEN after
                    ELSE [UpdateGlobalState(after, is_train) EXCEPT !.i = @ + 1]
    /\ UNCHANGED <<sampler, restore, loss, collate, kl_point>>

\* "for phase, data_loader in data_loaders.items()": the phase after `phase`
\* in the dictionary get_data_loaders fills in the order train, test.
NextPhase_TrainOnly(phase) == None

NextPhase(phase) == IF phase = "train" THEN Some("test") ELSE None

\* The end of a phase's for loop: on to the next phase, or global_epoch += 1.
PhaseEnd ==
    /\ train.pc = "for"
    /\ train.i = train.data[train.phase]
    /\ train' = IF NextPhase(train.phase) # None
                THEN [train EXCEPT !.phase = NextPhase(train.phase)[1], !.i = 0]
                ELSE [train EXCEPT !.pc = "while", !.global_epoch = @ + 1]
    /\ UNCHANGED <<sampler, restore, loss, collate, kl_point>>

\* KeyboardInterrupt arrives between two steps of train_loop.
Interrupt ==
    /\ train.pc \in {"while", "for"}
    /\ train' = [train EXCEPT !.pc = "finally", !.exc = "KeyboardInterrupt"]
    /\ UNCHANGED <<sampler, restore, loss, collate, kl_point>>

\* except KeyboardInterrupt / finally: save_checkpoint / sys.exit(0).
Finally ==
    /\ train.pc = "finally"
    /\ LET saved == save_checkpoint(train, train.global_step, train.global_epoch, None)
       IN  train' = [train EXCEPT
                !.pc = IF train.exc = "none" \/ Handled(train.exc) THEN "exited" ELSE "crashed",
                !.files = saved.files,
                !.final = saved.written]
    /\ UNCHANGED <<sampler, restore, loss, collate, kl_point>>

\* The script is started again on the same checkpoint directory, with or
\* without --checkpoint_student and --reset-optimizer.
Restart ==
    /\ train.pc \in {"exited", "crashed"}
    /\ train.run = "first"
    /\ \E path \in {None} \cup {Some(f.path) : f \in train.files}, reset_optimizer \in BOOLEAN :
        train' = Process(train.hparams, train.data, train.files,
                         [checkpoint_student_path |-> path, reset_optimizer |-> reset_optimizer],
                         "resumed")
    /\ UNCHANGED <<sampler, restore, loss, collate, kl_point>>

Next ==
    \/ Setup
    \/ LoadCheckpoint
    \/ TrainLoopEnter
    \/ EpochCheck
    \/ Step
    \/ PhaseEnd
    \/ Interrupt
    \/ Finally
    \/ Restart

Spec == Init /\ [][Next]_vars

\* The file --checkpoint_student names.
LoadedFile == CHOOSE f \in train.files : f.path = train.args.checkpoint_student_path[1]

\* C2: when load_checkpoint has read back a checkpoint that save_checkpoint
\* wrote, with or without --reset-optimizer, the student's parameters are the
\* saved ones and global_step, global_epoch and global_test_step are the values
\* the counters had when it was saved.
C2_RoundTrip ==
    train.pc = "loaded" =>
        /\ state_dict(train.student) = LoadedFile.at_save.state_dict
        /\ train.global_step = LoadedFile.at_save.global_step
        /\ train.global_epoch = LoadedFile.at_save.global_epoch
        /\ train.global_test_step = LoadedFile.at_save.global_test_step

\* A checkpoint of a trained student, saved after train and validation steps,
\* has been loaded with --reset-optimizer.
C2_Witness ==
    /\ train.pc = "loaded"
    /\ train.args.reset_optimizer
    /\ train.global_step >= 1 /\ train.global_test_step >= 1 /\ train.global_epoch >= 1
    /\ state_dict(train.student) # state_dict(build_model("student"))

\* C3: from the start of train_loop on, through train and validation steps,
\* every teacher parameter keeps the value it had when the loop started.
C3_TeacherUnchanged ==
    train.pc \in {"while", "for", "finally", "exited", "crashed"} =>
        train.teacher = train.teacher_at_start[1]

\* Train steps with a positive learning rate have changed the student, and a
\* validation step has run.
C3_Witness ==
    /\ train.pc = "for"
    /\ train.run = "first"
    /\ train.global_step >= 2 /\ train.global_test_step >= 1
    /\ train.optimizer.lr > 0
    /\ train.student["conv"].data < 2 * Unit

\* C4: when the process has ended after the epoch limit or after a
\* KeyboardInterrupt between steps, it has exited without a crash and its
\* shutdown wrote exactly one checkpoint, which holds the final global_step
\* and global_epoch.
C4_FinalCheckpoint ==
    (train.pc \in {"exited", "crashed"} /\ train.exc \in {"none", "KeyboardInterrupt"}) =>
        /\ train.pc = "exited"
        /\ Len(train.final) = 1
        /\ \E f \in train.files :
              /\ f.path = train.final[1]
              /\ f.content.global_step = train.global_step
              /\ f.content.global_epoch = train.global_epoch

\* An interrupted run with the moving average on has exited after train steps.
C4_Witness ==
    /\ train.pc = "exited"
    /\ train.exc = "KeyboardInterrupt"
    /\ train.ema # None
    /\ train.global_step >= 1
    /\ train.global_epoch < train.hparams.nepochs

\* C9: every transition inside train_loop leaves each of global_step,
\* global_test_step and global_epoch unchanged or increases it by exactly 1.
C9_CountersStepByOne ==
    [][(train.pc \in {"while", "for"} /\ train'.pc \in {"while", "for", "finally"}) =>
        /\ train'.global_step \in {train.global_step, train.global_step + 1}
        /\ train'.global_test_step \in {train.global_test_step, train.global_test_step + 1}
        /\ train'.global_epoch \in {train.global_epoch, train.global_epoch + 1}]_vars

\* The loop is in its second epoch or later: every counter has moved.
C9_Witness ==
    /\ train.pc = "for"
    /\ train.phase = "train" /\ train.i >= 1
    /\ train.global_step >= 2 /\ train.global_test_step >= 1 /\ train.global_epoch >= 1

\* A network declares a need for conditioning features or speaker ids that the
\* batches do not meet.
ConditioningMismatch ==
    \E m \in {train.data.cond.student, train.data.cond.teacher} :
        \/ m.c # (train.data.cond.c # None)
        \/ m.g # (train.data.cond.g # None)

\* C10: a step on a batch whose conditioning does not match what the student
\* or the teacher declares raises RuntimeError with the student, the
\* optimizer (its learning rate included), the moving-average shadow, the
\* counters and the checkpoint directory as they were; the error ends the
\* process: no further step follows it.
C10_MismatchIsFatal ==
    [][/\ (/\ train.pc = "for"
           /\ train.i < train.data[train.phase]
           /\ ConditioningMismatch
           /\ train'.exc # "KeyboardInterrupt")
          => /\ train'.pc = "finally"
             /\ train'.exc = "RuntimeError"
             /\ train'.student = train.student
             /\ train'.optimizer = train.optimizer
             /\ train'.ema = train.ema
             /\ train'.files = train.files
             /\ train'.global_step = train.global_step
             /\ train'.global_test_step = train.global_test_step
             /\ train'.global_epoch = train.global_epoch
       /\ (train.pc # "off" /\ train.exc = "RuntimeError")
          => /\ train'.pc \in {"crashed", "start"}
             /\ train'.pc = "crashed" =>
                   /\ train'.student = train.student
                   /\ train'.global_step = train.global_step]_vars

\* A resumed run with the moving average on has crashed on the mismatch.
C10_Witness ==
    /\ train.pc = "crashed"
    /\ train.exc = "RuntimeError"
    /\ train.run = "resumed"
    /\ train.args.checkpoint_student_path # None
    /\ train.ema # None

\* C11: with hparams.share_upsample_conv, from the start of train_loop on and
\* after every step, the student's "upsample" parameter equals the restored
\* teacher's, is not trainable and is not held by the optimizer.
C11_SharedUpsampling ==
    (train.pc \in {"while", "for"} /\ train.hparams.share_upsample_conv) =>
        /\ train.student["upsample"].data = train.teacher["upsample"].data
        /\ ~train.student["upsample"].requires_grad
        /\ <<"student", "upsample">> \notin train.optimizer.params

\* The frozen and unoptimized part of C11, which does hold.
SharedUpsampleFrozen ==
    (train.pc \in {"while", "for"} /\ train.hparams.share_upsample_conv) =>
        /\ ~train.student["upsample"].requires_grad
        /\ <<"student", "upsample">> \notin train.optimizer.params

\* A transition in which __train_step makes its periodic save_checkpoint call.
PeriodicSave ==
    /\ train.pc = "for" /\ train.phase = "train"
    /\ train.i < train.data[train.phase]
    /\ train.global_step > 0
    /\ train.global_step % train.hparams.checkpoint_interval = 0
    /\ train'.pc = "for"

\* A transition in which __main__ makes its final save_checkpoint call.
FinalSave == train.pc = "finally" /\ train'.pc \in {"exited", "crashed"}

\* After the transition the directory holds, for the step of the save, an
\* averaged checkpoint of the student and the shadow values as they were when
\* save_checkpoint was called.
AveragedWritten ==
    \E f \in train'.files :
        /\ f.path = <<train.global_step, "_ema">>
        /\ f.content.global_step = train.global_step
        /\ f.content.global_epoch = train.global_epoch
        /\ f.content.state_dict =
              [k \in ParamNames |-> IF k \in DOMAIN train.ema[1] THEN train.ema[1][k]
                                    ELSE train.student[k].data]

\* C12: with hparams.exponential_moving_average, every save of the run, the
\* periodic one of a train step and the final one at shutdown or interrupt,
\* also writes the averaged checkpoint for the same step: shadow values for
\* the shadowed parameters, the model's own values for the others.
C12_AveragedCheckpoint ==
    [][((PeriodicSave \/ FinalSave) /\ train.hparams.exponential_moving_average)
         => AveragedWritten]_vars

\* The periodic part of C12, which does hold.
PeriodicAveragedCheckpoint ==
    [][(PeriodicSave /\ train.hparams.exponential_moving_average) => AveragedWritten]_vars

(***************************************************************************)
(* KLLoss.forward in floating point                                        *)
(*                                                                         *)
(* A float is m * 2^e with a signed mantissa m of Precision bits (float32  *)
(* has 24); zero is [m |-> 0, e |-> 0]. Every arithmetic operation rounds  *)
(* its exact result to the nearest float, ties to even. torch.exp and      *)
(* torch.log return the rounding of some value inside an enclosure of the  *)
(* exact result (partial sums of the series with a bound on the rest).     *)
(***************************************************************************)
Precision == 4

Zero == [m |-> 0, e |-> 0]

RECURSIVE RoundPos(_, _, _)
\* The float nearest to (n / d) * 2^e, for n > 0 and d > 0.
RoundPos(n, d, e) ==
    IF n \div Pow2(Precision) >= d THEN RoundPos(n, 2 * d, e + 1)
    ELSE IF n < d * Pow2(Precision - 1) THEN RoundPos(2 * n, d, e - 1)
    ELSE LET q == n \div d
             r == n % d
             m == IF 2 * r > d \/ (2 * r = d /\ q % 2 = 1) THEN q + 1 ELSE q
         IN  IF m = Pow2(Precision) THEN [m |-> Pow2(Precision - 1), e |-> e + 1]
             ELSE [m |-> m, e |-> e]

\* The float nearest to (n / d) * 2^e, for d > 0.
RoundQ(n, d, e) ==
    IF n = 0 THEN Zero
    ELSE IF n > 0 THEN RoundPos(n, d, e)
    ELSE [RoundPos(0 - n, d, e) EXCEPT !.m = 0 - @]

\* Exact arithmetic on m * 2^e with m of any size.
DyAdd(a, b) ==
    LET e == Min(a.e, b.e)
    IN  [m |-> a.m * Pow2(a.e - e) + b.m * Pow2(b.e - e), e |-> e]
DyNeg(a) == [m |-> 0 - a.m, e |-> a.e]
DyMul(a, b) == [m |-> a.m * b.m, e |-> a.e + b.e]
DyScale(a, k) == [m |-> a.m, e |-> a.e + k]

Round(a) == RoundQ(a.m, 1, a.e)

\* The float operations of KLLoss.forward.
FAdd(a, b) == Round(DyAdd(a, b))
FSub(a, b) == Round(DyAdd(a, DyNeg(b)))
FMul(a, b) == Round(DyMul(a, b))
FDiv(a, b) == IF b.m > 0 THEN RoundQ(a.m, b.m, a.e - b.e) ELSE RoundQ(0 - a.m, 0 - b.m, a.e - b.e)
FAbs(a) == [m |-> Abs(a.m), e |-> a.e]
FromInt(k) == Round([m |-> k, e |-> 0])

\* torch.pow(x, 2)
FSquare(a) == FMul(a, a)

\* torch.clamp(x, min=lo)
FClampMin(a, lo) == IF DyAdd(a, DyNeg(lo)).m < 0 THEN lo ELSE a

\* The floats that are roundings of a value between lo and hi (of one sign):
\* rounding is monotone, so it is enough to round values a quarter of the
\* float spacing apart.
RoundingsBetween(lo, hi) ==
    LET e == Min(lo.e, hi.e)
        a == lo.m * Pow2(lo.e - e)
        b == hi.m * Pow2(hi.e - e)
        stride == Pow2(Log2(Min(Abs(a), Abs(b))) - Precision - 1)
    IN  {RoundQ(a + k * stride, 1, e) : k \in 0..((b - a) \div stride)} \cup {RoundQ(b, 1, e)}

\* torch.exp(x) for 0 <= x < 1/2: 1 + x + x^2/2 + x^3/8 <= exp(x)
\* <= 1 + x + x^2/2 + x^3/4.
ExpOutcomes(x) ==
    LET x2 == DyMul(x, x)
        x3 == DyMul(x2, x)
        base == DyAdd(DyAdd([m |-> 1, e |-> 0], x), DyScale(x2, 0 - 1))
    IN  RoundingsBetween(DyAdd(base, DyScale(x3, 0 - 3)), DyAdd(base, DyScale(x3, 0 - 2)))

\* torch.log(r) for 1/2 <= r <= 2, with x = r - 1: for x >= 0,
\* x - x^2/2 + x^3/16 <= log(r) <= x - x^2/2 + 3x^3/8; for x < 0 and y = -x,
\* -(y + y^2/2 + y^3) <= log(r) <= -(y + y^2/2 + y^3/4).
LogOutcomes(r) ==
    LET x == DyAdd(r, [m |-> 0 - 1, e |-> 0])
        y == FAbs(x)
        y2 == DyMul(y, y)
        y3 == DyMul(y2, y)
        up == DyAdd(y, DyNeg(DyScale(y2, 0 - 1)))
        down == DyAdd(y, DyScale(y2, 0 - 1))
    IN  IF x.m >= 0
        THEN RoundingsBetween(DyAdd(up, DyScale(y3, 0 - 4)),
                              DyAdd(up, DyScale([m |-> 3 * y3.m, e |-> y3.e], 0 - 3)))
        ELSE RoundingsBetween(DyNeg(DyAdd(down, y3)), DyNeg(DyAdd(down, DyScale(y3, 0 - 2))))

\* KLLoss.forward at one timestep, given the floats torch.exp and torch.log
\* return.
KLPointFloat(teacher_mu, teacher_log_scale, teacher_scale, log_ratio, student_mu, student_scale, student_log_scale) ==
    LET loss1 == FMul(FromInt(LogScaleWeight),
                      FSquare(FAbs(FSub(teacher_log_scale, student_log_scale))))
        num == FAdd(FSub(FSquare(student_scale), FSquare(teacher_scale)),
                    FSquare(FSub(student_mu, teacher_mu)))
        loss2 == FAdd(log_ratio, FDiv(num, FMul(FromInt(2), FSquare(teacher_scale))))
    IN  FAdd(loss1, loss2)

\* Every result KLLoss.forward can return at one timestep, with the teacher
\* scale it went through.
KLOutcomes(teacher_mu, teacher_log_scale_in, student_mu, student_scale, student_log_scale) ==
    LET teacher_log_scale == FClampMin(teacher_log_scale_in, FromInt(log_scale_min))
    IN  UNION {{[teacher_log_scale |-> teacher_log_scale,
                 teacher_scale |-> teacher_scale,
                 kl_loss |-> KLPointFloat(teacher_mu, teacher_log_scale, teacher_scale, log_ratio,
                                          student_mu, student_scale, student_log_scale)] :
                log_ratio \in LogOutcomes(FDiv(teacher_scale, student_scale))} :
               teacher_scale \in ExpOutcomes(teacher_log_scale)}

\* Teacher log-scales: one below the floor, the floor, and the floats of three
\* binades below 1/2.
TeacherLogScales ==
    {FromInt(0 - 1), Zero} \cup
    {[m |-> m, e |-> 0 - Precision - k] :
        m \in Pow2(Precision - 1)..(Pow2(Precision) - 1), k \in 1..3}

\* Student scales: the floats of [1, 2).
StudentScales ==
    {[m |-> m, e |-> 1 - Precision] : m \in Pow2(Precision - 1)..(Pow2(Precision) - 1)}

KLInit ==
    /\ sampler = Off /\ restore = Off /\ loss = Off /\ collate = Off /\ train = Off
    /\ \E teacher_log_scale \in TeacherLogScales, student_scale \in StudentScales,
          same_log_scale \in BOOLEAN, student_mu \in {Zero, FromInt(1)} :
        kl_point = [pc |-> "input", teacher_mu |-> Zero, teacher_log_scale |-> teacher_log_scale,
              student_mu |-> student_mu, student_scale |-> student_scale,
              student_log_scale |-> IF same_log_scale
                                    THEN FClampMin(teacher_log_scale, FromInt(log_scale_min))
                                    ELSE FromInt(1),
              outcomes |-> {}]

\* KLLoss.forward on the timestep.
KLForward ==
    /\ kl_point.pc = "input"
    /\ kl_point' = [kl_point EXCEPT
            !.pc = "done",
            !.outcomes = KLOutcomes(kl_point.teacher_mu, kl_point.teacher_log_scale, kl_point.student_mu,
                                    kl_point.student_scale, kl_point.student_log_scale)]
    /\ UNCHANGED <<sampler, restore, loss, collate, train>>

KLNext == KLForward

SpecKL == KLInit /\ [][KLNext]_vars

\* The student's location, scale and log-scale are the teacher's clamped ones.
SameDistribution(o) ==
    /\ kl_point.student_mu = kl_point.teacher_mu
    /\ kl_point.student_scale = o.teacher_scale
    /\ kl_point.student_log_scale = o.teacher_log_scale

KLZeroWhenSame ==
    kl_point.pc = "done" => \A o \in kl_point.outcomes : SameDistribution(o) => o.kl_loss = Zero

\* The computed value is not negative on every input only through the choice
\* of exp and log roundings: here every outcome is negative.
KLNeverNegativeOnAllOutcomes ==
    kl_point.pc = "done" => \E o \in kl_point.outcomes : o.kl_loss.m >= 0

\* C14: a validation-phase call of __train_step leaves the student's
\* parameters, the optimizer (its learning rate and its step count) and the
\* moving-average shadow as they were, and writes no checkpoint.
C14_ValidationStepFrame ==
    [][(/\ train.pc = "for"
        /\ train.phase = "test"
        /\ train.i < train.data[train.phase]
        /\ train'.exc # "KeyboardInterrupt")
       => /\ train'.student = train.student
          /\ train'.optimizer = train.optimizer
          /\ train'.ema = train.ema
          /\ train'.files = train.files]_vars

\* A validation step has returned in a run with a schedule, a positive
\* learning rate and the moving average, after train steps that moved the
\* student.
C14_Witness ==
    /\ train.pc = "for"
    /\ train.phase = "test" /\ train.i >= 1
    /\ train.run = "first"
    /\ train.hparams.lr_schedule # None
    /\ train.optimizer.lr > 0
    /\ train.ema # None
    /\ train.global_test_step >= 2
    /\ train.student["conv"].data < 2 * Unit

\* C15: inside train_loop an epoch starts with the train stream at its first
\* batch; the validation stream starts only when the train stream is
\* exhausted; a train batch goes through one training step (one optimizer
\* update) and then adds 1 to global_step and nothing to global_test_step; a
\* validation batch adds 1 to global_test_step and nothing to global_step;
\* global_epoch grows, by 1, only when the validation stream is exhausted;
\* no stream is read beyond its end.
C15_EpochOrder ==
    [][(train.pc \in {"while", "for"} /\ train'.pc \in {"while", "for"}) =>
        /\ train'.pc = "for" => train'.i <= train.data[train'.phase]
        /\ (train.pc = "while" /\ train'.pc = "for") => (train'.phase = "train" /\ train'.i = 0)
        /\ (train.pc = "for" /\ train'.pc = "for" /\ train'.phase # train.phase)
              => /\ train.phase = "train" /\ train'.phase = "test"
                 /\ train.i = train.data["train"] /\ train'.i = 0
                 /\ train'.global_step = train.global_step
                 /\ train'.global_test_step = train.global_test_step
        /\ (train.pc = "for" /\ train'.pc = "for" /\ train'.phase = train.phase)
              => /\ train'.i = train.i + 1
                 /\ train'.global_epoch = train.global_epoch
                 /\ train.phase = "train" =>
                       /\ train'.global_step = train.global_step + 1
                       /\ train'.global_test_step = train.global_test_step
                       /\ train'.optimizer.t = train.optimizer.t + 1
                 /\ train.phase = "test" =>
                       /\ train'.global_test_step = train.global_test_step + 1
                       /\ train'.global_step = train.global_step
        /\ train'.global_epoch # train.global_epoch
              => /\ train'.global_epoch = train.global_epoch + 1
                 /\ train.pc = "for" /\ train.phase = "test"
                 /\ train.i = train.data["test"]
                 /\ train'.pc = "while"]_vars

\* The second epoch of a run has exhausted both of its streams.
C15_Witness ==
    /\ train.pc = "for"
    /\ train.phase = "test" /\ train.i = train.data["test"]
    /\ train.global_epoch = 1
    /\ train.global_step = 2 * train.data["train"]
    /\ train.global_test_step = 2 * train.data["test"]

\* A transition that is a returning call of __train_step.
StepReturns ==
    /\ train.pc = "for" /\ train'.pc = "for"
    /\ train.i < train.data[train.phase]

\* C16: a step of train_loop writes a checkpoint exactly when it is a train
\* step with global_step > 0 and global_step divisible by
\* hparams.checkpoint_interval; the checkpoint holds the parameters from
\* before the step's update and the global_step from before its increment,
\* which in a first run is the number of optimizer updates made so far, and
\* the step in its file name is the stored global_step.
C16_PeriodicCheckpoint ==
    [][StepReturns =>
        IF /\ train.phase = "train"
           /\ train.global_step > 0
           /\ train.global_step % train.hparams.checkpoint_interval = 0
        THEN \E f \in train'.files :
                /\ f.path = <<train.global_step, "">>
                /\ f.path[1] = f.content.global_step
                /\ f.content.state_dict = [k \in ParamNames |-> train.student[k].data]
                /\ train.run = "first" => f.content.global_step = train.optimizer.t
                /\ \A o \in train'.files \ train.files : o.path[1] = train.global_step
        ELSE train'.files = train.files]_vars

\* A periodic checkpoint of a student that the step's update then moved.
C16_Witness ==
    /\ train.pc = "for"
    /\ train.run = "first"
    /\ train.hparams.checkpoint_interval = 2
    /\ train.global_step = 3
    /\ \E f \in train.files :
          /\ f.path = <<2, "">>
          /\ f.content.state_dict # [k \in ParamNames |-> train.student[k].data]

\* Runs without KeyboardInterrupt, for one setting of the hparams that the
\* loop control does not read: no moving average, no shared upsampling, a
\* constant learning rate of 1, optimizer state saved.
InitUninterrupted ==
    /\ Init
    /\ ~train.hparams.exponential_moving_average
    /\ ~train.hparams.share_upsample_conv
    /\ train.hparams.save_optimizer_state
    /\ train.hparams.lr_schedule = None
    /\ train.hparams.initial_learning_rate = 1

NextUninterrupted ==
    \/ Setup
    \/ LoadCheckpoint
    \/ TrainLoopEnter
    \/ EpochCheck
    \/ Step
    \/ PhaseEnd
    \/ Finally
    \/ Restart

\* The script is sequential code over finite streams: whatever statement is
\* next is eventually executed.
SpecUninterrupted ==
    InitUninterrupted /\ [][NextUninterrupted]_vars /\ WF_vars(NextUninterrupted)

\* global_epoch when train_loop was entered: 0, or the loaded checkpoint's.
EpochAtEntry ==
    IF train.args.checkpoint_student_path = None THEN 0 ELSE LoadedFile.at_save.global_epoch

\* C17: without interrupt, train_loop, once entered, ends; when it returns,
\* global_epoch is the larger of hparams.nepochs and its value at entry; and a
\* run whose loaded checkpoint already has global_epoch >= hparams.nepochs
\* never enters the batch loop and keeps the three loaded counters.
C17_LoopTerminates ==
    /\ (train.pc = "while") ~> (train.pc \in {"finally", "exited", "crashed"})
    /\ [](train.pc = "finally" /\ train.exc = "none"
            => train.global_epoch = Max(train.hparams.nepochs, EpochAtEntry))
    /\ [](/\ train.pc \in {"while", "for", "finally"}
          /\ train.args.checkpoint_student_path # None
          /\ EpochAtEntry >= train.hparams.nepochs
          => /\ train.pc # "for"
             /\ train.global_step = LoadedFile.at_save.global_step
             /\ train.global_test_step = LoadedFile.at_save.global_test_step
             /\ train.global_epoch = LoadedFile.at_save.global_epoch)

\* A run resumed from a checkpoint at the epoch limit has left train_loop, and
\* so has, earlier, a run that went through all its epochs.
C17_Witness ==
    /\ train.pc = "finally" /\ train.exc = "none"
    /\ train.run = "resumed"
    /\ train.args.checkpoint_student_path # None
    /\ EpochAtEntry = train.hparams.nepochs
    /\ train.hparams.nepochs = MaxEpochs
    /\ train.global_step = MaxEpochs * MaxTrainBatches

\* len(x) == len(c) * hop_size for one example (c is its frame sequence).
HopAligned(x, c) == Len(x) = Len(c) * hop_size

\* C18: with hop-aligned conditioning, collate_fn raises when an example comes
\* in with len(x) # len(c) * hop_size; when it returns, an example no longer
\* than max_time_steps rounded down to a multiple of hop_size (or any example
\* when there is no maximum) is unchanged, a longer one is the window of
\* exactly that length starting at new_batch[b].start, a multiple of hop_size,
\* inside the example, with the conditioning frames of that window, and
\* len(x) == len(c) * hop_size holds before and after.
C18_HopAlignedCrop ==
    collate.pc \in {"returned", "raised"} /\ collate.local_conditioning =>
        /\ (\E b \in 1..Len(collate.batch) :
                ~HopAligned(collate.batch[b].x, collate.batch[b].c[1]))
              => collate.pc = "raised"
        /\ collate.pc = "returned" =>
            \A b \in 1..Len(collate.batch) :
                LET ex == collate.batch[b]
                    new == collate.new_batch[b]
                    m == collate.max_time_steps
                    limit == IF m = None THEN 0 ELSE m[1] - (m[1] % hop_size)
                IN  /\ HopAligned(ex.x, ex.c[1])
                    /\ HopAligned(new.x, new.c[1])
                    /\ IF m = None \/ Len(ex.x) <= limit
                       THEN new.x = ex.x /\ new.c = ex.c /\ new.start = 0
                       ELSE /\ Len(new.x) = limit
                            /\ new.start % hop_size = 0
                            /\ new.start + limit <= Len(ex.x)
                            /\ new.x = [p \in 1..limit |-> ex.x[new.start + p]]
                            /\ new.c[1] = [k \in 1..(limit \div hop_size) |->
                                            ex.c[1][(new.start \div hop_size) + k]]

\* A returned batch with one example cropped at a positive offset and one
\* example of exactly the rounded maximum left alone, the maximum itself not
\* a multiple of hop_size.
C18_Witness ==
    /\ collate.pc = "returned" /\ collate.local_conditioning
    /\ collate.max_time_steps # None
    /\ \E b, o \in 1..Len(collate.batch) :
          LET limit == collate.max_time_steps[1] - (collate.max_time_steps[1] % hop_size)
          IN  /\ collate.max_time_steps[1] # limit
              /\ Len(collate.batch[b].x) > limit
              /\ collate.new_batch[b].start > 0
              /\ Len(collate.batch[o].x) = limit
              /\ collate.new_batch[o].x = collate.batch[o].x

\* Besides an example that is not hop aligned at input, collate_fn raises
\* when max_time_steps < hop_size: the crop to 0 samples and 0 frames makes the
\* second assert_ready_for_upsampling divide by len(c) = 0.
CollateRaises ==
    collate.pc = "raised" /\ collate.local_conditioning =>
        \/ \E b \in 1..Len(collate.batch) :
                ~HopAligned(collate.batch[b].x, collate.batch[b].c[1])
        \/ /\ collate.max_time_steps # None
           /\ collate.max_time_steps[1] < hop_size
           /\ collate.exc = "ZeroDivisionError"

\* The mask entry of the comparison at 0-based index t of an example.
ValidComparison(t, length) == IF t + 1 < length THEN 1 ELSE 0

\* C19: the KL loss of a batch with time dimension T is the sum, over the
\* examples and t = 0..T-2, of the KL value of the student's distribution at
\* index t+1 against the teacher's output at index t wherever t+1 is below the
\* example's valid length, divided by the number of such comparisons, which is
\* the sum of valid length - 1 over the examples when none is empty.
C19_KLAlignment ==
    loss.pc = "done" =>
        LET l == loss.input_lengths
            run == loss.first
            term(b, t) ==
                ValidComparison(t, l[b])
                * KLPoint(run.teacher_mu[b][t + 1], run.teacher_log_scale[b][t + 1],
                          run.student_mu[b][t + 2], run.student_scale[b][t + 2],
                          run.student_log_scale[b][t + 2])
        IN  /\ loss.kl_loss[1].num =
                SumAll([b \in 1..Len(l) |-> [q \in 1..(loss.T - 1) |-> term(b, q - 1)]])
            /\ loss.kl_loss[1].den =
                SumAll([b \in 1..Len(l) |-> [q \in 1..(loss.T - 1) |-> ValidComparison(q - 1, l[b])]])
            /\ (\A b \in 1..Len(l) : l[b] >= 1)
                  => loss.kl_loss[1].den = SumSeq([b \in 1..Len(l) |-> l[b] - 1])

\* The loss of a batch of two examples, one of them padded by one timestep,
\* whose divisor is neither 0 nor the batch size.
C19_Witness ==
    /\ loss.pc = "done"
    /\ Len(loss.input_lengths) = 2
    /\ loss.T = MaxT
    /\ loss.input_lengths[1] = MaxT
    /\ loss.input_lengths[2] = MaxT - 1
    /\ loss.kl_loss[1].den = 2 * MaxT - 3
    /\ loss.kl_loss[1].den # Len(loss.input_lengths)
    /\ loss.kl_loss[1].num # 0

\* The position (1-based) of an index in the length-sorted order, and the
\* number of positions covered by full groups.
SortedPosition(index) == CHOOSE k \in 1..Len(sampler.sorted_indices) : sampler.sorted_indices[k] = index
GroupedRegion == (Len(sampler.sorted_indices) \div sampler.batch_group_size) * sampler.batch_group_size
GroupOf(index) == (SortedPosition(index) - 1) \div sampler.batch_group_size

\* Every row of batch_size positions inside the grouped region holds indices
\* of one length-sorted group, and the positions after it hold indices from
\* after it.
RowsWithinGroups ==
    sampler.pc = "returned" =>
        /\ \A k, o \in 1..GroupedRegion :
              (k - 1) \div sampler.batch_size = (o - 1) \div sampler.batch_size
                  => GroupOf(sampler.indices[k]) = GroupOf(sampler.indices[o])
        /\ \A k \in (GroupedRegion + 1)..Len(sampler.indices) :
              SortedPosition(sampler.indices[k]) > GroupedRegion

\* The tail step can leave the positions after the grouped region in an order
\* other than the length-sorted one.
TailCanChange ==
    ENABLED (/\ IterTail
             /\ \E k \in (GroupedRegion + 1)..Len(sampler.indices) :
                    sampler'.indices[k] # sampler.sorted_indices[k])

\* C20: rows of the grouped region stay within one length-sorted group, the
\* indices after the last full group stay in the tail positions, and whenever
\* the tail holds at least two indices, with or without a full group before it,
\* the tail step can produce an order of the tail other than the sorted one.
C20_GroupsAndTail ==
    /\ RowsWithinGroups
    /\ (sampler.pc = "tail" /\ Len(sampler.indices) - GroupedRegion >= 2) => TailCanChange

\* The same with a full group before the tail: here the tail is shuffled.
TailShuffledAfterFullGroup ==
    (sampler.pc = "tail" /\ GroupedRegion > 0 /\ Len(sampler.indices) - GroupedRegion >= 2)
        => TailCanChange

\* Without a full group nothing is shuffled: the pass returns the
\* length-sorted order.
NoFullGroupReturnsSorted ==
    (sampler.pc = "returned" /\ GroupedRegion = 0) => sampler.indices = sampler.sorted_indices

(***************************************************************************)
(* load_checkpoint on any checkpoint file, also one written before the     *)
(* validation-step counter was added to the dictionary                     *)
(***************************************************************************)
MaxCounter == 2

\* The dictionaries a checkpoint file can hold: parameters, an optimizer state
\* or None, the two counters, and global_test_step or no such key.
CheckpointFiles ==
    {[state_dict |-> [k \in ParamNames |-> v],
      optimizer |-> o, global_step |-> step, global_epoch |-> epoch, global_test_step |-> test] :
        v \in {Unit, 3 * Unit},
        o \in {None} \cup {Some([lr |-> lr, t |-> t]) : lr \in 0..1, t \in 0..MaxCounter},
        step \in 0..MaxCounter, epoch \in 0..MaxCounter,
        test \in {None} \cup {Some(n) : n \in 0..MaxCounter}}

\* A process started with --checkpoint_student on one such file.
LoadInit ==
    /\ sampler = Off /\ restore = Off /\ loss = Off /\ collate = Off /\ kl_point = Off
    /\ \E content \in CheckpointFiles, reset_optimizer \in BOOLEAN, lr \in LearningRates,
          share \in BOOLEAN :
        train = Process([nepochs |-> 1, checkpoint_interval |-> 1,
                         initial_learning_rate |-> lr.initial_learning_rate,
                         lr_schedule |-> lr.lr_schedule,
                         exponential_moving_average |-> FALSE,
                         share_upsample_conv |-> share,
                         save_optimizer_state |-> TRUE],
                        [train |-> MaxTrainBatches, test |-> 1,
                         cond |-> CHOOSE cond \in Conditioning : cond.g # None],
                        {[path |-> CheckpointPath(content.global_step, ""),
                          content |-> content,
                          at_save |-> [state_dict |-> content.state_dict,
                                       global_step |-> content.global_step,
                                       global_epoch |-> content.global_epoch,
                                       global_test_step |-> 0]]},
                        [checkpoint_student_path |-> Some(CheckpointPath(content.global_step, "")),
                         reset_optimizer |-> reset_optimizer],
                        "resumed")

LoadNext ==
    \/ Setup
    \/ LoadCheckpoint

SpecLoad == LoadInit /\ [][LoadNext]_vars

\* The optimizer as __main__ constructs it for the student at hand.
OptimizerAsConstructed ==
    [params |-> {<<"student", k>> : k \in {n \in ParamNames : train.student[n].requires_grad}},
     lr |-> train.hparams.initial_learning_rate, t |-> 0]

\* C21: after load_checkpoint, with or without reset_optimizer, global_step and
\* global_epoch are the checkpoint's, global_test_step is the checkpoint's or 0
\* when the checkpoint has no such field, and the optimizer holds the
\* checkpoint's state exactly when reset_optimizer is false and the checkpoint
\* has one; otherwise it is as constructed.
C21_LoadCheckpoint ==
    train.pc = "loaded" =>
        LET checkpoint == LoadedFile.content
        IN  /\ train.global_step = checkpoint.global_step
            /\ train.global_epoch = checkpoint.global_epoch
            /\ train.global_test_step = IF checkpoint.global_test_step = None THEN 0
                                        ELSE checkpoint.global_test_step[1]
            /\ train.exc = "none"
            /\ IF ~train.args.reset_optimizer /\ checkpoint.optimizer # None
               THEN /\ train.optimizer.lr = checkpoint.optimizer[1].lr
                    /\ train.optimizer.t = checkpoint.optimizer[1].t
                    /\ train.optimizer.params = OptimizerAsConstructed.params
               ELSE train.optimizer = OptimizerAsConstructed

\* A checkpoint without global_test_step, with positive counters and an
\* optimizer state unlike the constructed one, has been loaded under
\* --reset-optimizer.
C21_Witness ==
    /\ train.pc = "loaded"
    /\ train.args.reset_optimizer
    /\ LoadedFile.content.global_test_step = None
    /\ LoadedFile.content.optimizer # None
    /\ LoadedFile.content.optimizer[1].t = MaxCounter
    /\ train.optimizer.t = 0
    /\ train.global_step = MaxCounter /\ train.global_epoch = MaxCounter
    /\ train.global_test_step = 0

\* The steps of the script from the entry of train_loop to the process's end.
InTrainLoop(pc) == pc \in {"while", "for", "finally", "exited", "crashed"}

\* A train-phase pass of __train_step that returned.
TrainStepReturns ==
    /\ train.pc = "for" /\ train'.pc = "for"
    /\ train.phase = "train"
    /\ train.i < train.data[train.phase]

\* C22: with hparams.exponential_moving_average the shadow map made at the
\* entry of train_loop has the student's parameters with requires_grad as keys
\* (not the shared, frozen upsampling ones) and their values; from then on its
\* key set stays; a train-phase step leaves every entry at
\* decay * old shadow + (1 - decay) * the parameter's value after the
\* optimizer step, with decay = 1/2; every other step (validation step,
\* checkpoint saving, loop control, the final save) leaves every entry as it
\* was. Without the moving average there is no shadow map.
C22_ShadowMap ==
    [][/\ (~InTrainLoop(train.pc) /\ train'.pc = "while") =>
            IF train.hparams.exponential_moving_average
            THEN /\ train'.ema # None
                 /\ DOMAIN train'.ema[1] =
                        IF train.hparams.share_upsample_conv
                        THEN ParamNames \ {"upsample"} ELSE ParamNames
                 /\ \A k \in DOMAIN train'.ema[1] :
                        /\ train.student[k].requires_grad
                        /\ train'.ema[1][k] = train.student[k].data
            ELSE train'.ema = None
       /\ (InTrainLoop(train.pc) /\ InTrainLoop(train'.pc)) =>
            IF train.ema = None THEN train'.ema = None
            ELSE /\ train'.ema # None
                 /\ DOMAIN train'.ema[1] = DOMAIN train.ema[1]
                 /\ \A k \in DOMAIN train.ema[1] :
                        IF TrainStepReturns
                        THEN 2 * train'.ema[1][k] = train.ema[1][k] + train'.student[k].data
                        ELSE train'.ema[1][k] = train.ema[1][k]]_vars

\* With shared upsampling and a positive learning rate, train steps have moved
\* the shadow of the trainable parameter away from both its registered value
\* and the parameter itself, and a validation step has run since.
C22_Witness ==
    /\ train.pc = "for"
    /\ train.ema # None
    /\ train.hparams.share_upsample_conv
    /\ DOMAIN train.ema[1] = {"conv"}
    /\ train.global_step >= 2 /\ train.global_test_step >= 1
    /\ train.ema[1]["conv"] # train.student["conv"].data
    /\ train.ema[1]["conv"] < 2 * Unit

====
